---------------------------- MODULE Spec2Model ----------------------------
(***************************************************************************)
(* Hedera Agent Economy backend (src/main.py): the in-memory agent         *)
(* registry, the message and transaction logs, the two cumulative          *)
(* counters, the task-submission handler and the query handlers.           *)
(*                                                                         *)
(* Amounts (hbar) are Python floats in the source.  They are modelled as   *)
(* integers counting 0.00001 hbar (0.5 hbar is 50000), one decimal digit   *)
(* finer than the four digits round(x, 4) keeps, so that rounding is a     *)
(* real operation of the model.                                            *)
(***************************************************************************)
EXTENDS Integers, Sequences, FiniteSets, TLC

VARIABLES AGENTS, MESSAGES, TRANSACTIONS, _tasks_completed, _total_hbar_settled,
          now, response, history, pc, frame, snap

\* AGENTS, MESSAGES, TRANSACTIONS, _tasks_completed, _total_hbar_settled: the
\*     module-level state of src/main.py
\* now:      the wall clock, in whole seconds
\* response: what the last handler to return returned
\* history:  the request and the receipt of every submit_task run so far
\* pc, frame, snap: the threads of the concurrent specification (where each
\*     stands, the locals of submit_task, the snapshot being built); empty
\*     where handlers run one at a time
state == <<AGENTS, MESSAGES, TRANSACTIONS, _tasks_completed, _total_hbar_settled>>
threads == <<pc, frame, snap>>
vars == <<AGENTS, MESSAGES, TRANSACTIONS, _tasks_completed, _total_hbar_settled,
          now, response, history, pc, frame, snap>>

-----------------------------------------------------------------------------
(* Bounds of the model *)

\* calls of submit_task and run_demo that get past validation
MaxCalls == 2
\* seconds the wall clock advances
MaxTicks == 1
\* submissions each worker thread of the concurrent specification performs
MaxRounds == 1
\* snapshots the polling thread of the concurrent specification takes
MaxPolls == 1

-----------------------------------------------------------------------------
(* Numbers *)

\* round(x, 4): to the nearest multiple of 0.0001, ties to even
Round4(x) ==
    LET q == x \div 10
        r == x % 10
    IN  IF r < 5 THEN q * 10
        ELSE IF r > 5 THEN (q + 1) * 10
        ELSE IF q % 2 = 0 THEN q * 10 ELSE (q + 1) * 10

Max(a, b) == IF a >= b THEN a ELSE b
Min(a, b) == IF a <= b THEN a ELSE b

\* seq[start:] of Python, start any integer
PySliceFrom(seq, start) ==
    LET n == Len(seq)
        s == IF start < 0 THEN Max(n + start, 0) ELSE Min(start, n)
    IN  SubSeq(seq, s + 1, n)

\* seq[:stop] of Python, stop >= 0
PySliceTo(seq, stop) == SubSeq(seq, 1, Min(stop, Len(seq)))

\* sum(f(x) for x in seq)
RECURSIVE SumOver(_, _)
SumOver(seq, field) ==
    IF seq = <<>> THEN 0
    ELSE seq[1][field] + SumOver(Tail(seq), field)

-----------------------------------------------------------------------------
(* Seed data *)

SeedAGENTS ==
    << [agent_id |-> "registry-001", agent_type |-> "registry",
        name |-> "Registry Agent", skills |-> <<"discover", "register", "lookup">>,
        hbar_balance |-> 5000000, tasks_completed |-> 142, earnings_hbar |-> 2840000,
        status |-> "idle", registered_at |-> "2026-02-24T10:00:00Z"],
       [agent_id |-> "broker-001", agent_type |-> "broker",
        name |-> "Broker Agent", skills |-> <<"match", "negotiate", "route">>,
        hbar_balance |-> 7520000, tasks_completed |-> 138, earnings_hbar |-> 5510000,
        status |-> "busy", registered_at |-> "2026-02-24T10:00:00Z"],
       [agent_id |-> "worker-summarizer", agent_type |-> "worker",
        name |-> "Summarizer Worker", skills |-> <<"summarize", "tldr", "abstract">>,
        hbar_balance |-> 2250000, tasks_completed |-> 89, earnings_hbar |-> 4450000,
        status |-> "idle", registered_at |-> "2026-02-24T10:00:00Z"],
       [agent_id |-> "worker-code-reviewer", agent_type |-> "worker",
        name |-> "Code Reviewer Worker", skills |-> <<"review", "lint", "security-scan">>,
        hbar_balance |-> 3100000, tasks_completed |-> 67, earnings_hbar |-> 6700000,
        status |-> "idle", registered_at |-> "2026-02-24T10:00:00Z"],
       [agent_id |-> "worker-data-analyst", agent_type |-> "worker",
        name |-> "Data Analyst Worker", skills |-> <<"analyze", "stats", "chart">>,
        hbar_balance |-> 1870000, tasks_completed |-> 54, earnings_hbar |-> 4050000,
        status |-> "busy", registered_at |-> "2026-02-24T10:00:00Z"],
       [agent_id |-> "settlement-001", agent_type |-> "settlement",
        name |-> "Settlement Agent", skills |-> <<"settle", "transfer", "audit">>,
        hbar_balance |-> 20000000, tasks_completed |-> 308, earnings_hbar |-> 1540000,
        status |-> "idle", registered_at |-> "2026-02-24T10:00:00Z"] >>

\* f"0.0.5483526@{ts}.000000000"
TxId(ts) == [account |-> "0.0.5483526", seconds |-> ts, nanos |-> 0]

\* the unix second of the first seed transaction
SeedEpoch == 1708765200

SeedMESSAGES ==
    << [id |-> "msg-001", topic |-> "agent-registry", sender |-> "registry-001",
        message_type |-> "agent_registered",
        payload |-> [agent_id |-> "worker-summarizer", skills |-> <<"summarize", "tldr">>],
        consensus_timestamp |-> "2026-02-24T10:00:00Z",
        tx_id |-> TxId(SeedEpoch)],
       [id |-> "msg-002", topic |-> "task-negotiation", sender |-> "broker-001",
        message_type |-> "task_assigned",
        payload |-> [task_id |-> "task-abc", worker |-> "worker-summarizer",
                     budget_hbar |-> 50000],
        consensus_timestamp |-> "2026-02-24T10:01:00Z",
        tx_id |-> TxId(SeedEpoch + 60)],
       [id |-> "msg-003", topic |-> "settlement", sender |-> "settlement-001",
        message_type |-> "payment_settled",
        payload |-> [task_id |-> "task-abc", amount_hbar |-> 50000,
                     tx_id |-> TxId(SeedEpoch)],
        consensus_timestamp |-> "2026-02-24T10:02:00Z",
        tx_id |-> TxId(SeedEpoch + 120)] >>

SeedTRANSACTIONS ==
    << [task_id |-> "task-abc", worker_id |-> "worker-summarizer", amount_hbar |-> 50000,
        tx_id |-> TxId(SeedEpoch), duration_ms |-> 312, timestamp |-> SeedEpoch,
        mock |-> TRUE],
       [task_id |-> "task-def", worker_id |-> "worker-code-reviewer", amount_hbar |-> 100000,
        tx_id |-> TxId(SeedEpoch + 60), duration_ms |-> 428, timestamp |-> SeedEpoch + 60,
        mock |-> TRUE],
       [task_id |-> "task-ghi", worker_id |-> "worker-data-analyst", amount_hbar |-> 75000,
        tx_id |-> TxId(SeedEpoch + 120), duration_ms |-> 389, timestamp |-> SeedEpoch + 120,
        mock |-> TRUE] >>

HCS_TOPICS ==
    [x \in {"agent-registry", "task-negotiation", "settlement"} |->
        CASE x = "agent-registry" -> "0.0.5483527"
          [] x = "task-negotiation" -> "0.0.5483528"
          [] x = "settlement" -> "0.0.5483529"]

\* the wall clock when the process starts serving, after every seed timestamp
StartEpoch == SeedEpoch + 121

\* datetime.now(timezone.utc).isoformat() at clock second t
_now(t) == [iso |-> t]

-----------------------------------------------------------------------------
(* Requests *)

\* the JSON value given for budget_hbar: a number, nothing, or no number
Num(n) == [kind |-> "number", value |-> n]
Absent == [kind |-> "absent", value |-> 0]
NotANumber == [kind |-> "invalid", value |-> 0]

\* task types: one the skill map knows and one it does not
TaskTypes == {"lint", "translate"}
Payloads == {<<"T", "h", "e", " ", "f", "o", "x">>}
\* budgets: -0.5, 0.50004, none given (the default, 0.5) and no number
RawBudgets == {Num(-50000), Num(50004), Absent, NotANumber}
TaskIds == {"task-1a2b3c4d", "task-9f8e7d6c"}
MsgIds == {"msg-a1b2c3"}
DurationChoices == {280}
MeanChoices == {100}
SigmaChoices == {10}

Bodies == [task_type : TaskTypes, payload : Payloads, budget_hbar : RawBudgets]

\* the outcomes of uuid4 and random.randint within one submission
Randoms == [task_id : TaskIds, msg_id : MsgIds, duration_ms : DurationChoices,
            mean : MeanChoices, sigma : SigmaChoices]

\* the outcomes of the three submissions of one run_demo
DemoRandoms ==
    {rnds \in [1..3 -> Randoms] : rnds[1].task_id = rnds[3].task_id}

\* the inputs of the specification of all endpoints
ApiTaskTypes == {"summarize", "translate"}
ApiRawBudgets == {Num(-50000), Absent, NotANumber}
ApiBodies == [task_type : ApiTaskTypes, payload : Payloads, budget_hbar : ApiRawBudgets]
ApiRandoms == {rnd \in Randoms : rnd.task_id = "task-1a2b3c4d"}
Limits == {-1, 0, 2, 50}

\* the inputs of the specification of concurrent requests: budgets 0.5 and 0.25
ThreadTaskTypes == {"summarize", "lint"}
ThreadRawBudgets == {Absent, Num(25000)}
ThreadBodies ==
    [task_type : ThreadTaskTypes, payload : Payloads, budget_hbar : ThreadRawBudgets]

\* pydantic's validation of the request body: the parsed request, or no request
TaskRequest(body) ==
    IF body.budget_hbar.kind = "invalid" THEN [ok |-> FALSE]
    ELSE [ok |-> TRUE,
          task_type |-> body.task_type,
          payload |-> body.payload,
          budget_hbar |-> IF body.budget_hbar.kind = "absent" THEN 50000
                          ELSE body.budget_hbar.value]

-----------------------------------------------------------------------------
(* submit_task, as a function of the state it reads *)

skill_map ==
    [x \in {"summarize", "tldr", "abstract", "review", "lint", "security-scan",
            "analyze", "stats", "chart"} |->
        IF x \in {"summarize", "tldr", "abstract"} THEN "worker-summarizer"
        ELSE IF x \in {"review", "lint", "security-scan"} THEN "worker-code-reviewer"
        ELSE "worker-data-analyst"]

\* a lookup with no default: None for a task type that is no key
assigned_worker_id_no_default(task_type) ==
    IF task_type \in DOMAIN skill_map THEN skill_map[task_type] ELSE "None"

\* skill_map.get(req.task_type, "worker-summarizer")
assigned_worker_id(task_type) ==
    IF task_type \in DOMAIN skill_map THEN skill_map[task_type] ELSE "worker-summarizer"

\* the agent is always the positional one, AGENTS[2], whatever the id
worker_positional(agents, id) == 3

\* next((a for a in AGENTS if a["agent_id"] == id), AGENTS[2]), as an index into agents
worker(agents, id) ==
    LET hits == {i \in 1..Len(agents) : agents[i].agent_id = id}
    IN  IF hits = {} THEN 3
        ELSE CHOOSE i \in hits : \A j \in hits : i <= j

\* result_map.get(req.task_type, f"Task completed: {req.payload[:100]}"); a text is
\* its template, the payload excerpt and the random numbers it embeds, and the
\* number of characters before the excerpt
result_text(req, rnd) ==
    CASE req.task_type = "summarize" ->
            [template |-> "Summary", lead |-> 9,
             excerpt |-> PySliceTo(req.payload, 120), numbers |-> <<>>]
      [] req.task_type = "review" ->
            [template |-> "Code Review", lead |-> 94,
             excerpt |-> PySliceTo(req.payload, 80), numbers |-> <<>>]
      [] req.task_type = "analyze" ->
            [template |-> "Analysis complete", lead |-> 0,
             excerpt |-> <<>>, numbers |-> <<rnd.mean, rnd.sigma>>]
      [] OTHER ->
            [template |-> "Task completed", lead |-> 16,
             excerpt |-> PySliceTo(req.payload, 100), numbers |-> <<>>]

\* result_text[:80]
Truncate80(text) ==
    [text EXCEPT !.excerpt = PySliceTo(text.excerpt, Max(80 - text.lead, 0))]

\* the shared state as one value
Current ==
    [AGENTS |-> AGENTS, MESSAGES |-> MESSAGES, TRANSACTIONS |-> TRANSACTIONS,
     tasks |-> _tasks_completed, settled |-> _total_hbar_settled]

\* round(x + req.budget_hbar, 4) of lines 298 and 300
AddRounded(x, budget) == Round4(x + budget)

\* the amount recorded is the budget rounded to 4 digits
NewTransaction_rounded(task_id, worker_id, req, tx_id, duration_ms, ts) ==
    [task_id |-> task_id, worker_id |-> worker_id,
     amount_hbar |-> Round4(req.budget_hbar),
     tx_id |-> tx_id, duration_ms |-> duration_ms, timestamp |-> ts, mock |-> TRUE]

\* the transaction of lines 302-310
NewTransaction(task_id, worker_id, req, tx_id, duration_ms, ts) ==
    [task_id |-> task_id, worker_id |-> worker_id, amount_hbar |-> req.budget_hbar,
     tx_id |-> tx_id, duration_ms |-> duration_ms, timestamp |-> ts, mock |-> TRUE]

\* the message of lines 312-320
NewMessage(msg_id, task_id, worker_id, text, tx_id, t) ==
    [id |-> msg_id, topic |-> "task-negotiation", sender |-> "broker-001",
     message_type |-> "task_completed",
     payload |-> [task_id |-> task_id, worker |-> worker_id, result |-> Truncate80(text)],
     consensus_timestamp |-> _now(t), tx_id |-> tx_id]

\* the receipt of lines 322-331
Receipt(task_id, text, req, duration_ms, name, tx_id, messages) ==
    [task_id |-> task_id, status |-> "completed", result |-> text,
     cost_hbar |-> req.budget_hbar, duration_ms |-> duration_ms,
     assigned_to |-> name, tx_id |-> tx_id, hcs_sequence |-> 1000 + Len(messages)]

\* one whole run of submit_task on state st at clock second ts: the state it
\* leaves and the receipt it returns
SubmitTask(st, req, rnd, ts) ==
    LET id == assigned_worker_id(req.task_type)
        w == worker(st.AGENTS, id)
        text == result_text(req, rnd)
        tx_id == TxId(ts)
        agents == [st.AGENTS EXCEPT
                      ![w].tasks_completed = @ + 1,
                      ![w].earnings_hbar = AddRounded(@, req.budget_hbar)]
        txs == Append(st.TRANSACTIONS,
                      NewTransaction(rnd.task_id, id, req, tx_id, rnd.duration_ms, ts))
        msgs == Append(st.MESSAGES,
                       NewMessage(rnd.msg_id, rnd.task_id, id, text, tx_id, ts))
    IN  [st |-> [AGENTS |-> agents, MESSAGES |-> msgs, TRANSACTIONS |-> txs,
                 tasks |-> st.tasks + 1,
                 settled |-> AddRounded(st.settled, req.budget_hbar)],
         receipt |-> Receipt(rnd.task_id, text, req, rnd.duration_ms,
                             agents[w].name, tx_id, msgs)]

\* the state variables take the values of st
Store(st) ==
    /\ AGENTS' = st.AGENTS
    /\ MESSAGES' = st.MESSAGES
    /\ TRANSACTIONS' = st.TRANSACTIONS
    /\ _tasks_completed' = st.tasks
    /\ _total_hbar_settled' = st.settled

\* the handler calls recorded in the history, a run_demo counted once
RECURSIVE Calls(_)
Calls(h) ==
    IF h = <<>> THEN 0
    ELSE (IF h[1].first THEN 1 ELSE 0) + Calls(Tail(h))

Called(op, req, receipt, first) ==
    [op |-> op, req |-> req, receipt |-> receipt, first |-> first]

-----------------------------------------------------------------------------
(* The snapshot *)

\* sum(1 for a in AGENTS if a["status"] == "busy")
active(agents) == Cardinality({i \in 1..Len(agents) : agents[i].status = "busy"})

\* the stats of a snapshot
Stats(agents, tasks, settled) ==
    [tasks_completed |-> tasks, total_hbar_settled |-> Round4(settled),
     active_agents |-> active(agents), total_agents |-> Len(agents),
     topics |-> HCS_TOPICS]

_economy_snapshot(st, t) ==
    [agents |-> st.AGENTS,
     messages |-> PySliceFrom(st.MESSAGES, -50),
     transactions |-> PySliceFrom(st.TRANSACTIONS, -20),
     stats |-> Stats(st.AGENTS, st.tasks, st.settled),
     timestamp |-> _now(t)]

-----------------------------------------------------------------------------
(* The handlers, each run from call to return with no other handler between *)

NoThreads == <<>>

Init ==
    /\ AGENTS = SeedAGENTS
    /\ MESSAGES = SeedMESSAGES
    /\ TRANSACTIONS = SeedTRANSACTIONS
    /\ _tasks_completed = SumOver(SeedAGENTS, "tasks_completed")
    /\ _total_hbar_settled = SumOver(SeedTRANSACTIONS, "amount_hbar")
    /\ now = StartEpoch
    /\ response = [op |-> "none"]
    /\ history = <<>>
    /\ pc = NoThreads
    /\ frame = NoThreads
    /\ snap = NoThreads

Tick ==
    /\ now < StartEpoch + MaxTicks
    /\ now' = now + 1
    /\ UNCHANGED <<state, response, history, threads>>

health ==
    /\ response' = [op |-> "health", status |-> "ok", hedera_network |-> "testnet",
                    topic_id |-> "0.0.demo", agents_registered |-> Len(AGENTS),
                    demo_mode |-> TRUE, ai_enabled |-> FALSE, timestamp |-> _now(now)]
    /\ UNCHANGED <<state, now, history, threads>>

get_state ==
    /\ response' = [op |-> "get_state", snapshot |-> _economy_snapshot(Current, now)]
    /\ UNCHANGED <<state, now, history, threads>>

list_agents ==
    /\ response' = [op |-> "list_agents", agents |-> AGENTS, count |-> Len(AGENTS)]
    /\ UNCHANGED <<state, now, history, threads>>

\* the slice taken for the reply replaces the log
get_messages_truncating(limit) ==
    /\ response' = [op |-> "get_messages", limit |-> limit,
                    messages |-> PySliceFrom(MESSAGES, -limit), total |-> Len(MESSAGES)]
    /\ MESSAGES' = PySliceFrom(MESSAGES, -limit)
    /\ UNCHANGED <<AGENTS, TRANSACTIONS, _tasks_completed, _total_hbar_settled,
                   now, history, threads>>

get_messages(limit) ==
    /\ response' = [op |-> "get_messages", limit |-> limit,
                    messages |-> PySliceFrom(MESSAGES, -limit), total |-> Len(MESSAGES)]
    /\ UNCHANGED <<state, now, history, threads>>

\* the entries before the slice are deleted from the log
get_transactions_truncating(limit) ==
    /\ response' = [op |-> "get_transactions", limit |-> limit,
                    transactions |-> PySliceFrom(TRANSACTIONS, -limit),
                    total |-> Len(TRANSACTIONS)]
    /\ TRANSACTIONS' = PySliceFrom(TRANSACTIONS, -limit)
    /\ UNCHANGED <<AGENTS, MESSAGES, _tasks_completed, _total_hbar_settled,
                   now, history, threads>>

get_transactions(limit) ==
    /\ response' = [op |-> "get_transactions", limit |-> limit,
                    transactions |-> PySliceFrom(TRANSACTIONS, -limit),
                    total |-> Len(TRANSACTIONS)]
    /\ UNCHANGED <<state, now, history, threads>>

get_stats ==
    LET s == _economy_snapshot(Current, now).stats
    IN  /\ response' = [op |-> "get_stats", total_agents |-> s.total_agents,
                        total_tasks |-> s.tasks_completed,
                        completed_tasks |-> s.tasks_completed,
                        pending_tasks |-> 0, failed_tasks |-> 0,
                        total_hbar_settled |-> s.total_hbar_settled,
                        hcs_messages |-> Len(MESSAGES), topic_id |-> "0.0.demo",
                        demo_mode |-> TRUE]
        /\ UNCHANGED <<state, now, history, threads>>

get_feed(limit) ==
    /\ response' = [op |-> "get_feed", limit |-> limit,
                    messages |-> PySliceFrom(MESSAGES, -limit), topic_id |-> "0.0.demo",
                    count |-> Len(MESSAGES)]
    /\ UNCHANGED <<state, now, history, threads>>

\* a body pydantic rejects never reaches the handler: the reply is a 422
submit_task(body, rnd) ==
    LET req == TaskRequest(body)
    IN  IF ~req.ok
        THEN /\ response' = [op |-> "submit_task", status_code |-> 422, body |-> body]
             /\ UNCHANGED <<state, now, history, threads>>
        ELSE /\ Calls(history) < MaxCalls
             /\ LET out == SubmitTask(Current, req, rnd, now)
                IN  /\ Store(out.st)
                    /\ response' = [op |-> "submit_task", status_code |-> 200,
                                    body |-> body, receipt |-> out.receipt]
                    /\ history' = Append(history,
                                         Called("submit_task", req, out.receipt, TRUE))
             /\ UNCHANGED <<now, threads>>

\* the third task type misspelt, so that it is no key of the skill map
demo_tasks_misspelt ==
    << [ok |-> TRUE, task_type |-> "summarize",
        payload |-> <<"S", "u", "m", "m", "a", "r", "i", "z", "e">>, budget_hbar |-> 50000],
       [ok |-> TRUE, task_type |-> "review",
        payload |-> <<"R", "e", "v", "i", "e", "w">>, budget_hbar |-> 100000],
       [ok |-> TRUE, task_type |-> "analyse",
        payload |-> <<"A", "n", "a", "l", "y", "z", "e">>, budget_hbar |-> 75000] >>

demo_tasks ==
    << [ok |-> TRUE, task_type |-> "summarize",
        payload |-> <<"S", "u", "m", "m", "a", "r", "i", "z", "e">>, budget_hbar |-> 50000],
       [ok |-> TRUE, task_type |-> "review",
        payload |-> <<"R", "e", "v", "i", "e", "w">>, budget_hbar |-> 100000],
       [ok |-> TRUE, task_type |-> "analyze",
        payload |-> <<"A", "n", "a", "l", "y", "z", "e">>, budget_hbar |-> 75000] >>

run_demo(rnds) ==
    /\ Calls(history) < MaxCalls
    /\ LET o1 == SubmitTask(Current, demo_tasks[1], rnds[1], now)
           o2 == SubmitTask(o1.st, demo_tasks[2], rnds[2], now)
           o3 == SubmitTask(o2.st, demo_tasks[3], rnds[3], now)
           results == <<o1.receipt, o2.receipt, o3.receipt>>
       IN  /\ Store(o3.st)
           /\ response' = [op |-> "run_demo", demo |-> "complete",
                           tasks_executed |-> Len(results),
                           total_hbar_spent |-> SumOver(results, "cost_hbar"),
                           results |-> results]
           /\ history' = history \o
                  << Called("run_demo", demo_tasks[1], o1.receipt, TRUE),
                     Called("run_demo", demo_tasks[2], o2.receipt, FALSE),
                     Called("run_demo", demo_tasks[3], o3.receipt, FALSE) >>
    /\ UNCHANGED <<now, threads>>

\* the ledger operations, over the wide request inputs
Next ==
    \/ Tick
    \/ get_state
    \/ \E body \in Bodies, rnd \in Randoms : submit_task(body, rnd)
    \/ \E rnds \in DemoRandoms : run_demo(rnds)

Spec == Init /\ [][Next]_vars

\* every endpoint, over the narrow request inputs
NextApi ==
    \/ Tick
    \/ health
    \/ get_state
    \/ list_agents
    \/ \E limit \in Limits : get_messages(limit)
    \/ \E limit \in Limits : get_transactions(limit)
    \/ get_stats
    \/ \E limit \in Limits : get_feed(limit)
    \/ \E body \in ApiBodies, rnd \in ApiRandoms : submit_task(body, rnd)
    \/ \E rnds \in [1..3 -> ApiRandoms] : run_demo(rnds)

SpecApi == Init /\ [][NextApi]_vars

-----------------------------------------------------------------------------
(* Concurrent requests.  The handlers are plain functions, which the server  *)
(* runs on the threads of a pool, and nothing in src/main.py takes a lock:   *)
(* a thread may be preempted between any two reads or writes of the shared   *)
(* state.  Each augmented assignment of lines 297-300 is a load followed by  *)
(* a store; list.append is one step.  The requests overlap within one       *)
(* second of the clock.                                                      *)

\* the threads that run submit_task
Workers == {1, 2}

NoFrame == [round |-> 0]

InitThreads ==
    /\ AGENTS = SeedAGENTS
    /\ MESSAGES = SeedMESSAGES
    /\ TRANSACTIONS = SeedTRANSACTIONS
    /\ _tasks_completed = SumOver(SeedAGENTS, "tasks_completed")
    /\ _total_hbar_settled = SumOver(SeedTRANSACTIONS, "amount_hbar")
    /\ now = StartEpoch
    /\ response = [op |-> "none"]
    /\ history = <<>>
    /\ pc = [t \in Workers |-> "idle"]
    /\ frame = [t \in Workers |-> NoFrame]
    /\ snap = [pc |-> "idle", polls |-> 0]

\* thread t moves from label a to label b
Goto(t, a, b) ==
    /\ pc[t] = a
    /\ pc' = [pc EXCEPT ![t] = b]

\* thread t keeps value x in its frame
Loaded(t, x) == frame' = [frame EXCEPT ![t].tmp = x]

\* lines 265-294: the request is parsed, the worker resolved, the result text,
\* the clock reading and the transaction reference id computed
submit_task_call(t, body, rnd) ==
    LET req == TaskRequest(body)
        id == assigned_worker_id(req.task_type)
    IN  /\ req.ok
        /\ frame[t].round < MaxRounds
        /\ Goto(t, "idle", "L297")
        /\ frame' = [frame EXCEPT ![t] =
               [round |-> frame[t].round + 1, req |-> req, rnd |-> rnd,
                task_id |-> rnd.task_id, assigned_worker_id |-> id,
                worker |-> worker(AGENTS, id), result_text |-> result_text(req, rnd),
                ts |-> now, tx_id |-> TxId(now), duration_ms |-> rnd.duration_ms,
                tmp |-> 0]]
        /\ UNCHANGED <<state, now, response, history, snap>>

\* line 297, _tasks_completed += 1
L297_load(t) ==
    /\ Goto(t, "L297", "L297_store")
    /\ Loaded(t, _tasks_completed)
    /\ UNCHANGED <<state, now, response, history, snap>>

L297_store(t) ==
    /\ Goto(t, "L297_store", "L298")
    /\ _tasks_completed' = frame[t].tmp + 1
    /\ UNCHANGED <<AGENTS, MESSAGES, TRANSACTIONS, _total_hbar_settled,
                   now, response, history, frame, snap>>

\* line 298, _total_hbar_settled = round(_total_hbar_settled + req.budget_hbar, 4)
L298_load(t) ==
    /\ Goto(t, "L298", "L298_store")
    /\ Loaded(t, _total_hbar_settled)
    /\ UNCHANGED <<state, now, response, history, snap>>

L298_store(t) ==
    /\ Goto(t, "L298_store", "L299")
    /\ _total_hbar_settled' = AddRounded(frame[t].tmp, frame[t].req.budget_hbar)
    /\ UNCHANGED <<AGENTS, MESSAGES, TRANSACTIONS, _tasks_completed,
                   now, response, history, frame, snap>>

\* line 299, worker["tasks_completed"] += 1
L299_load(t) ==
    /\ Goto(t, "L299", "L299_store")
    /\ Loaded(t, AGENTS[frame[t].worker].tasks_completed)
    /\ UNCHANGED <<state, now, response, history, snap>>

L299_store(t) ==
    /\ Goto(t, "L299_store", "L300")
    /\ AGENTS' = [AGENTS EXCEPT ![frame[t].worker].tasks_completed = frame[t].tmp + 1]
    /\ UNCHANGED <<MESSAGES, TRANSACTIONS, _tasks_completed, _total_hbar_settled,
                   now, response, history, frame, snap>>

\* line 300, worker["earnings_hbar"] = round(worker["earnings_hbar"] + req.budget_hbar, 4)
L300_load(t) ==
    /\ Goto(t, "L300", "L300_store")
    /\ Loaded(t, AGENTS[frame[t].worker].earnings_hbar)
    /\ UNCHANGED <<state, now, response, history, snap>>

L300_store(t) ==
    /\ Goto(t, "L300_store", "L302")
    /\ AGENTS' = [AGENTS EXCEPT ![frame[t].worker].earnings_hbar =
                      AddRounded(frame[t].tmp, frame[t].req.budget_hbar)]
    /\ UNCHANGED <<MESSAGES, TRANSACTIONS, _tasks_completed, _total_hbar_settled,
                   now, response, history, frame, snap>>

\* lines 302-310, TRANSACTIONS.append
L302_append(t) ==
    LET f == frame[t]
    IN  /\ Goto(t, "L302", "L312")
        /\ TRANSACTIONS' = Append(TRANSACTIONS,
               NewTransaction(f.task_id, f.assigned_worker_id, f.req, f.tx_id,
                              f.duration_ms, f.ts))
        /\ UNCHANGED <<AGENTS, MESSAGES, _tasks_completed, _total_hbar_settled,
                       now, response, history, frame, snap>>

\* lines 312-320, MESSAGES.append
L312_append(t) ==
    LET f == frame[t]
    IN  /\ Goto(t, "L312", "L322")
        /\ MESSAGES' = Append(MESSAGES,
               NewMessage(f.rnd.msg_id, f.task_id, f.assigned_worker_id, f.result_text,
                          f.tx_id, now))
        /\ UNCHANGED <<AGENTS, TRANSACTIONS, _tasks_completed, _total_hbar_settled,
                       now, response, history, frame, snap>>

\* lines 322-331, the receipt is built from the state as it is now and returned
L322_return(t) ==
    LET f == frame[t]
        receipt == Receipt(f.task_id, f.result_text, f.req, f.duration_ms,
                           AGENTS[f.worker].name, f.tx_id, MESSAGES)
    IN  /\ Goto(t, "L322", "idle")
        /\ response' = [op |-> "submit_task", status_code |-> 200, thread |-> t,
                        receipt |-> receipt]
        /\ history' = Append(history, Called("submit_task", f.req, receipt, TRUE))
        /\ frame' = [frame EXCEPT ![t] = [round |-> f.round]]
        /\ UNCHANGED <<state, now, snap>>

\* get_state on a third thread.  Lines 178-182: the busy agents are counted
\* (no handler writes a status) and the two logs sliced
snapshot_logs ==
    /\ snap.pc = "idle"
    /\ snap.polls < MaxPolls
    /\ snap' = [pc |-> "L184", polls |-> snap.polls + 1, active |-> active(AGENTS),
                messages |-> PySliceFrom(MESSAGES, -50),
                transactions |-> PySliceFrom(TRANSACTIONS, -20)]
    /\ UNCHANGED <<state, now, response, history, pc, frame>>

\* line 184
snapshot_tasks ==
    /\ snap.pc = "L184"
    /\ snap' = [snap EXCEPT !.pc = "L185"] @@ [tasks |-> _tasks_completed]
    /\ UNCHANGED <<state, now, response, history, pc, frame>>

\* line 185
snapshot_settled ==
    /\ snap.pc = "L185"
    /\ snap' = [snap EXCEPT !.pc = "L180"] @@ [settled |-> Round4(_total_hbar_settled)]
    /\ UNCHANGED <<state, now, response, history, pc, frame>>

\* line 180 puts the list AGENTS itself in the snapshot: the agents' fields are
\* read when the returned value is serialized
snapshot_return ==
    /\ snap.pc = "L180"
    /\ response' = [op |-> "get_state",
                    snapshot |->
                        [agents |-> AGENTS, messages |-> snap.messages,
                         transactions |-> snap.transactions,
                         stats |-> [tasks_completed |-> snap.tasks,
                                    total_hbar_settled |-> snap.settled,
                                    active_agents |-> snap.active,
                                    total_agents |-> Len(AGENTS),
                                    topics |-> HCS_TOPICS],
                         timestamp |-> _now(now)]]
    /\ snap' = [pc |-> "idle", polls |-> snap.polls]
    /\ UNCHANGED <<state, now, history, pc, frame>>

NextThreads ==
    \/ \E t \in Workers, body \in ThreadBodies, rnd \in ApiRandoms :
           submit_task_call(t, body, rnd)
    \/ \E t \in Workers : L297_load(t)
    \/ \E t \in Workers : L297_store(t)
    \/ \E t \in Workers : L298_load(t)
    \/ \E t \in Workers : L298_store(t)
    \/ \E t \in Workers : L299_load(t)
    \/ \E t \in Workers : L299_store(t)
    \/ \E t \in Workers : L300_load(t)
    \/ \E t \in Workers : L300_store(t)
    \/ \E t \in Workers : L302_append(t)
    \/ \E t \in Workers : L312_append(t)
    \/ \E t \in Workers : L322_return(t)
    \/ snapshot_logs
    \/ snapshot_tasks
    \/ snapshot_settled
    \/ snapshot_return

SpecThreads == InitThreads /\ [][NextThreads]_vars

-----------------------------------------------------------------------------
(* Properties *)

\* the counters' values at process start (lines 163-164)
SeedTasksCompleted == SumOver(SeedAGENTS, "tasks_completed")
SeedHbarSettled == SumOver(SeedTRANSACTIONS, "amount_hbar")

\* s is an initial segment of t
IsPrefix(s, t) == Len(s) <= Len(t) /\ SubSeq(t, 1, Len(s)) = s

\* the last n entries of seq, for 0 <= n <= Len(seq)
LastN(seq, n) == [i \in 1..n |-> seq[Len(seq) - n + i]]

\* the budgets of the submissions made so far, in order
Budgets == [i \in 1..Len(history) |-> [budget_hbar |-> history[i].req.budget_hbar]]

NoThreadRunning == \A t \in DOMAIN pc : pc[t] = "idle"

\* C1: after N submissions with non-negative budgets b1..bN the completed-tasks
\* counter is its seed value plus N and the settled-value counter is its seed
\* value plus b1+...+bN, rounded to 4 decimal digits.
C1_CountersAfterSubmissions ==
    (\A i \in 1..Len(history) : history[i].req.budget_hbar >= 0) =>
        /\ _tasks_completed = SeedTasksCompleted + Len(history)
        /\ _total_hbar_settled =
               Round4(SeedHbarSettled + SumOver(Budgets, "budget_hbar"))

\* C2: a submission whose budget is negative is answered with an invalid-request
\* error and changes neither the counters, the logs nor any agent record.
C2_NegativeBudgetRejected ==
    [][\A body \in Bodies, rnd \in Randoms :
          (/\ body.budget_hbar.kind = "number"
           /\ body.budget_hbar.value < 0
           /\ submit_task(body, rnd))
          => (response'.status_code = 422 /\ UNCHANGED state)]_vars

\* C3: no two entries of the transaction log carry the same transaction
\* reference id.
C3_TxIdsUnique ==
    \A i, j \in 1..Len(TRANSACTIONS) :
        TRANSACTIONS[i].tx_id = TRANSACTIONS[j].tx_id => i = j

\* C4: whenever no submission is in progress, the settled-value counter is the
\* rounded sum of the amounts in the transaction log and the completed-tasks
\* counter is its seed value plus the number of completed submissions.
C4_NoLostUpdate ==
    NoThreadRunning =>
        /\ _total_hbar_settled = Round4(SumOver(TRANSACTIONS, "amount_hbar"))
        /\ _tasks_completed = SeedTasksCompleted + Len(history)

\* C5: after any sequence of completed operations the settled-value counter is
\* the sum of the amounts in the transaction log (to the counter's 4 decimal
\* digits) and the completed-tasks counter is the sum of the agents'
\* completed-tasks counters.
C5_CountersMatchLedger ==
    /\ _total_hbar_settled = Round4(SumOver(TRANSACTIONS, "amount_hbar"))
    /\ _tasks_completed = SumOver(AGENTS, "tasks_completed")

\* C6: in every snapshot returned, the stats agree with the agents and the
\* transactions of the same snapshot: tasks_completed is the sum over its agents
\* and total_hbar_settled the rounded sum over its transactions (which, below 20
\* entries, are the whole log).
C6_SnapshotConsistent ==
    response.op = "get_state" =>
        LET snapshot == response.snapshot
        IN  /\ snapshot.stats.tasks_completed =
                   SumOver(snapshot.agents, "tasks_completed")
            /\ snapshot.stats.total_hbar_settled =
                   Round4(SumOver(snapshot.transactions, "amount_hbar"))

\* the entries a query with limit L is to return from a log
Recent(log, L) == LastN(log, Min(Len(log), Max(L, 0)))

\* C7: a recent-messages or recent-transactions query with limit L on a log of K
\* entries returns the last min(K, max(L, 0)) entries in insertion order.
C7_RecentReturnsLastEntries ==
    /\ response.op \in {"get_messages", "get_feed"} =>
           response.messages = Recent(MESSAGES, response.limit)
    /\ response.op = "get_transactions" =>
           response.transactions = Recent(TRANSACTIONS, response.limit)

\* C8: no agent's earnings and no agent's completed-tasks counter decrease in
\* any step.
C8_AgentCountersMonotonic ==
    [][\A i \in 1..Len(AGENTS) :
          /\ AGENTS'[i].earnings_hbar >= AGENTS[i].earnings_hbar
          /\ AGENTS'[i].tasks_completed >= AGENTS[i].tasks_completed]_vars

\* C9: in every step each log is a prefix of itself after the step, and a log
\* grows only in a step that is a task submission (alone or within run_demo).
C9_LogsAppendOnly ==
    [][/\ IsPrefix(MESSAGES, MESSAGES')
       /\ IsPrefix(TRANSACTIONS, TRANSACTIONS')
       /\ (MESSAGES' # MESSAGES \/ TRANSACTIONS' # TRANSACTIONS) =>
              /\ response'.op \in {"submit_task", "run_demo"}
              /\ Len(history') > Len(history)]_vars

\* a query ran after a submission had extended the logs
C9_Witness ==
    /\ response.op \in {"get_messages", "get_transactions", "get_feed", "get_state"}
    /\ Len(MESSAGES) > Len(SeedMESSAGES)
    /\ Len(TRANSACTIONS) > Len(SeedTRANSACTIONS)

\* the task types routing is asked about: every key of the skill map and two
\* that are no key
RoutedTaskTypes == DOMAIN skill_map \cup {"translate", ""}

\* the transaction the i-th submission appended
Appended(i) == TRANSACTIONS[Len(SeedTRANSACTIONS) + i]

\* C10: routing depends on the task type alone: two submissions of one task type
\* are assigned the same agent whatever the ledger held, a task type outside the
\* skill map is assigned the summarizer worker, and in every state every task
\* type resolves to an agent of the registry.
C10_RoutingByTaskType ==
    /\ \A i, j \in 1..Len(history) :
           history[i].req.task_type = history[j].req.task_type =>
               /\ Appended(i).worker_id = Appended(j).worker_id
               /\ history[i].receipt.assigned_to = history[j].receipt.assigned_to
    /\ \A i \in 1..Len(history) :
           history[i].req.task_type \notin DOMAIN skill_map =>
               /\ Appended(i).worker_id = "worker-summarizer"
               /\ history[i].receipt.assigned_to = "Summarizer Worker"
    /\ \A t \in RoutedTaskTypes :
           LET w == worker(AGENTS, assigned_worker_id(t))
           IN  /\ w \in 1..Len(AGENTS)
               /\ AGENTS[w].agent_id = assigned_worker_id(t)
               /\ AGENTS[w].agent_id =
                      SeedAGENTS[worker(SeedAGENTS, assigned_worker_id(t))].agent_id
               /\ t \notin DOMAIN skill_map => AGENTS[w].agent_id = "worker-summarizer"

\* one task type of the skill map was submitted twice, the second time on a
\* ledger the first had changed
C10_Witness ==
    \E i, j \in 1..Len(history) :
        /\ i < j
        /\ history[i].req.task_type = history[j].req.task_type
        /\ history[i].req.task_type \in DOMAIN skill_map
        /\ history[i].op = "submit_task"
        /\ history[j].op = "submit_task"

\* the index in AGENTS of the agent with this id
AgentAt(id) == CHOOSE i \in 1..Len(AGENTS) : AGENTS[i].agent_id = id

\* the three specialised workers
DemoWorkers == {"worker-summarizer", "worker-code-reviewer", "worker-data-analyst"}

\* C11: a run_demo step, from whatever state, returns exactly 3 receipts whose
\* costs sum to 0.5 + 1.0 + 0.75 = 2.25, raises the completed-tasks counter by
\* exactly 3, and gives one task to each of the summarizer, the code reviewer
\* and the data analyst and none to any other agent.
C11_RunDemo ==
    [][(response'.op = "run_demo" /\ Len(history') > Len(history)) =>
          /\ Len(response'.results) = 3
          /\ response'.tasks_executed = 3
          /\ SumOver(response'.results, "cost_hbar") = 225000
          /\ response'.total_hbar_spent = 225000
          /\ _tasks_completed' = _tasks_completed + 3
          /\ Len(history') = Len(history) + 3
          /\ \A i \in 1..Len(AGENTS) :
                 AGENTS'[i].tasks_completed =
                     AGENTS[i].tasks_completed
                         + (IF AGENTS[i].agent_id \in DemoWorkers THEN 1 ELSE 0)
          /\ {response'.results[k].assigned_to : k \in 1..3} =
                 {AGENTS[AgentAt(id)].name : id \in DemoWorkers}]_vars

\* run_demo has returned, having started on a ledger that an earlier submission
\* had changed
C11_Witness ==
    /\ response.op = "run_demo"
    /\ Len(history) > 3
    /\ history[1].op = "submit_task"

\* C12: a receipt's sequence number is 1000 plus the length the message log had
\* once the submission's message was appended, and of two submissions the one
\* that returns later has the strictly larger number, also when they overlap.
C12_SequenceIncreasing ==
    \A i, j \in 1..Len(history) :
        i < j => history[i].receipt.hcs_sequence < history[j].receipt.hcs_sequence

\* the replies of the query handlers
QueryOps ==
    {"health", "get_state", "list_agents", "get_messages", "get_transactions",
     "get_stats", "get_feed"}

\* C13: a step in which a query handler replies (health, state, agents,
\* messages, transactions, stats, feed; any limit) leaves the agent registry,
\* both logs and both counters as they were.  Such a step is one that leaves the
\* clock alone and whose reply is a query's.
C13_QueriesReadOnly ==
    [][(response'.op \in QueryOps /\ now' = now) => UNCHANGED state]_vars

\* a query other than the log queries has replied on a ledger that submissions
\* had changed
C13_Witness ==
    /\ response.op \in {"health", "list_agents", "get_stats"}
    /\ Len(history) > 0
    /\ AGENTS # SeedAGENTS

\* the message the i-th submission appended
AppendedMessage(i) == MESSAGES[Len(SeedMESSAGES) + i]

\* C14: every submission that succeeded appended exactly one transaction and
\* exactly one message; the transaction's amount is the submitted budget and the
\* receipt's cost, the receipt's status is completed, and transaction, message
\* and receipt carry one task id and one transaction reference id.
C14_OneTransactionOneMessage ==
    /\ Len(TRANSACTIONS) = Len(SeedTRANSACTIONS) + Len(history)
    /\ Len(MESSAGES) = Len(SeedMESSAGES) + Len(history)
    /\ \A i \in 1..Len(history) :
           LET h == history[i]
               tx == Appended(i)
               msg == AppendedMessage(i)
           IN  /\ tx.amount_hbar = h.req.budget_hbar
               /\ tx.amount_hbar = h.receipt.cost_hbar
               /\ h.receipt.status = "completed"
               /\ msg.message_type = "task_completed"
               /\ tx.task_id = h.receipt.task_id
               /\ msg.payload.task_id = h.receipt.task_id
               /\ tx.tx_id = h.receipt.tx_id
               /\ msg.tx_id = h.receipt.tx_id

\* two submissions with different task ids in different seconds have succeeded,
\* one of them with a budget of more than 4 decimal digits
C14_Witness ==
    \E i, j \in 1..Len(history) :
        /\ history[i].receipt.task_id # history[j].receipt.task_id
        /\ history[i].receipt.tx_id # history[j].receipt.tx_id
        /\ history[i].req.budget_hbar = 50004

\* the step is one direct task submission
DirectSubmission == response'.op = "submit_task" /\ Len(history') = Len(history) + 1

\* the registry index of the agent the submission of this step resolved
Resolved == worker(AGENTS, assigned_worker_id(history'[Len(history')].req.task_type))

\* the registry keeps its 6 agents with unique ids and the same busy count, and
\* a direct submission adds 1 to the resolved agent's completed tasks and leaves
\* everything but that agent's two counters as it was
AgentFrame ==
    /\ Len(AGENTS') = 6
    /\ \A i, j \in 1..Len(AGENTS') :
           AGENTS'[i].agent_id = AGENTS'[j].agent_id => i = j
    /\ active(AGENTS') = active(AGENTS)
    /\ DirectSubmission =>
           /\ \A i \in 1..Len(AGENTS) : i # Resolved => AGENTS'[i] = AGENTS[i]
           /\ AGENTS'[Resolved] =
                  [AGENTS[Resolved] EXCEPT
                      !.tasks_completed = @ + 1,
                      !.earnings_hbar = AGENTS'[Resolved].earnings_hbar]

\* AgentFrame holds in every step
AgentFrameHolds == [][AgentFrame]_vars

\* C15: a task submission changes only the resolved agent's completed tasks, by
\* +1, and its earnings, by the submitted budget; every other agent and every
\* other field is unchanged, the agent count stays 6, the ids stay unique and
\* the busy count never changes.
C15_SubmissionChangesOnlyWorker ==
    [][/\ AgentFrame
       /\ DirectSubmission =>
              AGENTS'[Resolved].earnings_hbar =
                  AGENTS[Resolved].earnings_hbar + history'[Len(history')].req.budget_hbar]_vars

\* the submissions so far whose appended transaction records the agent as worker
RecordedFor(id) == {i \in 1..Len(history) : Appended(i).worker_id = id}

\* C16: for every submission the agent whose counters were incremented is the
\* agent recorded as worker in the appended transaction and message and named
\* in the receipt; every task type of the skill map is routed to a worker-type
\* agent of the registry that lists the type among its skills; and the
\* positional fallback AGENTS[2] is the agent the id-based fallback names.
C16_WorkerAgreesEverywhere ==
    /\ \A k \in 1..Len(AGENTS) :
           AGENTS[k].tasks_completed =
               SeedAGENTS[k].tasks_completed + Cardinality(RecordedFor(AGENTS[k].agent_id))
    /\ \A i \in 1..Len(history) :
           /\ AppendedMessage(i).payload.worker = Appended(i).worker_id
           /\ \E k \in 1..Len(AGENTS) :
                  /\ AGENTS[k].agent_id = Appended(i).worker_id
                  /\ AGENTS[k].name = history[i].receipt.assigned_to
    /\ \A t \in DOMAIN skill_map :
           \E k \in 1..Len(AGENTS) :
               /\ AGENTS[k].agent_id = skill_map[t]
               /\ AGENTS[k].agent_type = "worker"
               /\ \E n \in DOMAIN AGENTS[k].skills : AGENTS[k].skills[n] = t
    /\ AGENTS[3].agent_id = assigned_worker_id("no such task type")
    /\ worker(AGENTS, assigned_worker_id("no such task type")) = 3

\* a task type of the skill map and a task type outside it have both been
\* submitted, and they went to different agents
C16_Witness ==
    \E i, j \in 1..Len(history) :
        /\ history[i].req.task_type \in DOMAIN skill_map
        /\ history[j].req.task_type \notin DOMAIN skill_map
        /\ Appended(i).worker_id # Appended(j).worker_id

=============================================================================
